---- MODULE Spec2Model ----
(***************************************************************************)
(* A model of worklog_summarizer.py (class WorklogCollector and main).     *)
(*                                                                         *)
(* Strings are sequences of one-character strings, so that the string      *)
(* operations of the program (replace, search, strip, split, startswith)   *)
(* are computed character by character.  A calendar date is a triple       *)
(* <<year, month, day>>; None is the empty tuple.  Date arithmetic goes    *)
(* through the proleptic Gregorian ordinal, as Python's datetime does.     *)
(***************************************************************************)
EXTENDS Integers, Sequences, FiniteSets, TLC

VARIABLES
    pc,            \* position of the operation under study
    filename,      \* parse_date_from_filename: its argument
    file_date,     \* parse_date_from_filename: its return value
    content,       \* parse_log_file: the text read from the file
    tasks,         \* parse_log_file: tasks['completed'], tasks['pending']
    sections,      \* parse_log_file: the list of {title, content}
    now,           \* the wall clock's date, as an ordinal (datetime.now())
    ticks,         \* the midnights that have passed since the run began
    current_year,  \* self.current_year, captured by __init__
    days,          \* the day count of the request
    tree,          \* the directory tree under base_path: a set of paths
    start_date,    \* find_recent_logs: local start_date (ordinal)
    end_date,      \* find_recent_logs: local end_date (ordinal)
    log_files,     \* find_recent_logs: the returned list
    use_claude,    \* main: whether the analysis is enabled
    unreadable,    \* the files whose open() or decoding fails
    output_file,   \* main: the analysis path of generate_output_filename
    input_file,    \* main: the bundle path of generate_output_filename
    claude_input_file,  \* generate_summary_with_claude: its own bundle path
    stats_range,   \* collect_logs_for_claude: the window named in the header
    collect_window,     \* collect_logs_for_claude: the window of its search
    collect_files, \* collect_logs_for_claude: its local log_files
    log_content,   \* the bundle collect_logs_for_claude returned
    analysis_result,    \* what call_claude_analysis returned
    io,            \* the files written and the tool invocations, in order
    bundle_logs,   \* collect_logs_for_claude: the list logs it formats
    claude_input   \* collect_logs_for_claude: the text it returns

-----------------------------------------------------------------------------
(* Characters *)

None == <<>>

Digits == {"0", "1", "2", "3", "4", "5", "6", "7", "8", "9"}

DigitVal(c) ==
    CASE c = "0" -> 0 [] c = "1" -> 1 [] c = "2" -> 2 [] c = "3" -> 3
      [] c = "4" -> 4 [] c = "5" -> 5 [] c = "6" -> 6 [] c = "7" -> 7
      [] c = "8" -> 8 [] c = "9" -> 9

\* str.isspace() for the characters of the model's alphabet
Whitespace == {" ", "\t", "\r", "\n"}

\* int() of a run of decimal digits (the groups of the date pattern)
RECURSIVE IntOfDigits(_)
IntOfDigits(s) ==
    IF s = <<>> THEN 0
    ELSE 10 * IntOfDigits(SubSeq(s, 1, Len(s) - 1)) + DigitVal(s[Len(s)])

StartsWith(s, p) ==
    /\ Len(s) >= Len(p)
    /\ SubSeq(s, 1, Len(p)) = p

EndsWith(s, p) ==
    /\ Len(s) >= Len(p)
    /\ SubSeq(s, Len(s) - Len(p) + 1, Len(s)) = p

RECURSIVE Concat(_)
Concat(ss) == IF ss = <<>> THEN <<>> ELSE Head(ss) \o Concat(Tail(ss))

DotMd == <<".", "m", "d">>

-----------------------------------------------------------------------------
(* Calendar: datetime(year, month, day), toordinal, fromordinal, weekday *)

IsLeap(y) == y % 4 = 0 /\ (y % 100 # 0 \/ y % 400 = 0)

DaysInMonth(y, m) ==
    IF m = 2 THEN (IF IsLeap(y) THEN 29 ELSE 28)
    ELSE IF m \in {4, 6, 9, 11} THEN 30 ELSE 31

DaysBeforeYear(y) ==
    (y - 1) * 365 + ((y - 1) \div 4) - ((y - 1) \div 100) + ((y - 1) \div 400)

RECURSIVE DaysBeforeMonth(_, _)
DaysBeforeMonth(y, m) ==
    IF m = 1 THEN 0 ELSE DaysBeforeMonth(y, m - 1) + DaysInMonth(y, m - 1)

\* datetime(year, month, day) raises ValueError unless this holds
ValidDate(y, m, d) ==
    /\ y >= 1 /\ y <= 9999
    /\ m >= 1 /\ m <= 12
    /\ d >= 1 /\ d <= DaysInMonth(y, m)

Ord(date) == DaysBeforeYear(date[1]) + DaysBeforeMonth(date[1], date[2]) + date[3]

YearOfOrd(n) ==
    LET n0 == n - 1
        n400 == n0 \div 146097
        r400 == n0 % 146097
        n100 == r400 \div 36524
        r100 == r400 % 36524
        n4 == r100 \div 1461
        r4 == r100 % 1461
        n1 == r4 \div 365
        y == n400 * 400 + n100 * 100 + n4 * 4 + n1 + 1
    IN  IF n1 = 4 \/ n100 = 4 THEN y - 1 ELSE y

RECURSIVE MonthOfDay(_, _, _)
MonthOfDay(y, m, k) ==
    IF k <= DaysInMonth(y, m) THEN <<y, m, k>>
    ELSE MonthOfDay(y, m + 1, k - DaysInMonth(y, m))

FromOrd(n) ==
    LET y == YearOfOrd(n) IN MonthOfDay(y, 1, n - DaysBeforeYear(y))

\* datetime.weekday(): Monday = 0 .. Sunday = 6
Weekday(n) == (n + 6) % 7

-----------------------------------------------------------------------------
(* parse_date_from_filename *)

\* filename.replace('.md', ''): every occurrence, left to right
RECURSIVE StripMd(_)
StripMd(s) ==
    IF s = <<>> THEN <<>>
    ELSE IF StartsWith(s, DotMd) THEN StripMd(SubSeq(s, 4, Len(s)))
    ELSE <<Head(s)>> \o StripMd(Tail(s))

AllDigits(s) == \A i \in 1..Len(s) : s[i] \in Digits

\* re.search(r'(\d{4})(\d{2})(\d{2})', name): the start of the leftmost
\* match, 0 when there is none
RECURSIVE SearchFrom(_, _)
SearchFrom(name, i) ==
    IF i + 7 > Len(name) THEN 0
    ELSE IF AllDigits(SubSeq(name, i, i + 7)) THEN i
    ELSE SearchFrom(name, i + 1)

\* A search that returns the rightmost match instead of the leftmost
RECURSIVE SearchBack(_, _)
SearchBack(name, i) ==
    IF i < 1 THEN 0
    ELSE IF AllDigits(SubSeq(name, i, i + 7)) THEN i
    ELSE SearchBack(name, i - 1)

SearchDateRightmost(name) == SearchBack(name, Len(name) - 7)

SearchDate(name) == SearchFrom(name, 1)

DateAt(name, i) ==
    LET year == IntOfDigits(SubSeq(name, i, i + 3))
        month == IntOfDigits(SubSeq(name, i + 4, i + 5))
        day == IntOfDigits(SubSeq(name, i + 6, i + 7))
    IN  IF ValidDate(year, month, day) THEN <<year, month, day>> ELSE None

parse_date_from_filename(fname) ==
    LET name == StripMd(fname)
        match == SearchDate(name)
    IN  IF match # 0 THEN DateAt(name, match) ELSE None

-----------------------------------------------------------------------------
(* Idle values of the variables an operation does not use *)

NoTasks == [completed |-> <<>>, pending |-> <<>>]

nameVars == <<filename, file_date>>
logVars == <<content, tasks, sections>>
locVars == <<now, ticks, current_year, days, tree, start_date, end_date, log_files>>
runVars == <<use_claude, unreadable, output_file, input_file,
             claude_input_file, stats_range, collect_window, collect_files,
             log_content, analysis_result, io>>
bundleVars == <<bundle_logs, claude_input>>
vars == <<pc, nameVars, logVars, locVars, runVars, bundleVars>>

NameIdle == filename = <<>> /\ file_date = None
LogIdle == content = <<>> /\ tasks = NoTasks /\ sections = <<>>
LocIdle ==
    /\ now = 0 /\ ticks = 0 /\ current_year = 0 /\ days = 0 /\ tree = {}
    /\ start_date = 0 /\ end_date = 0 /\ log_files = <<>>

BundleIdle == bundle_logs = <<>> /\ claude_input = <<>>

\* The value of a string variable before its assignment
Unassigned == "unassigned"

RunIdle ==
    /\ use_claude = FALSE /\ unreadable = {}
    /\ output_file = None /\ input_file = None /\ claude_input_file = None
    /\ stats_range = None /\ collect_window = None /\ collect_files = <<>>
    /\ log_content = None /\ analysis_result = Unassigned /\ io = <<>>

-----------------------------------------------------------------------------
(* The filename parser applied to bounded filenames *)

MaxSegs == 4

NameSegs ==
    { <<"2", "0", "2", "5">>,
      <<"2", "0", "2", "4">>,
      <<"1", "1", "0", "7">>,
      <<"1", "3", "3", "2">>,
      <<"0", "2", "2", "9">>,
      <<"0", "0", "0", "0">>,
      <<".", "m", "d">>,
      <<"x">> }

FileNames ==
    { Concat(ss) : ss \in UNION { [1..n -> NameSegs] : n \in 1..MaxSegs } }

InitName ==
    /\ pc = "name_call"
    /\ filename \in FileNames
    /\ file_date = None
    /\ LogIdle /\ LocIdle /\ RunIdle /\ BundleIdle

ParseName ==
    /\ pc = "name_call"
    /\ file_date' = parse_date_from_filename(filename)
    /\ pc' = "name_done"
    /\ UNCHANGED <<bundleVars, filename, logVars, locVars, runVars>>

NextName == ParseName

SpecName == InitName /\ [][NextName]_vars

\* The positions of the stem at which 8 consecutive digits start
DigitRuns(stem) ==
    { i \in 1..(Len(stem) - 7) : AllDigits(SubSeq(stem, i, i + 7)) }

\* <<y, m, d>> names a day of the calendar: the ordinal it would have is the
\* ordinal of exactly that day
IsCalendarDay(y, m, d) ==
    /\ y \in 1..9999 /\ m \in 1..12 /\ d >= 1
    /\ FromOrd(Ord(<<y, m, d>>)) = <<y, m, d>>

\* The date the claims expect of a stem: the leftmost 8-digit run read as
\* YYYYMMDD when it is a calendar day, None otherwise
ExpectedDate(stem) ==
    IF DigitRuns(stem) = {} THEN None
    ELSE LET first == CHOOSE i \in DigitRuns(stem) :
                          \A j \in DigitRuns(stem) : i <= j
             y == IntOfDigits(SubSeq(stem, first, first + 3))
             m == IntOfDigits(SubSeq(stem, first + 4, first + 5))
             d == IntOfDigits(SubSeq(stem, first + 6, first + 7))
         IN  IF IsCalendarDay(y, m, d) THEN <<y, m, d>> ELSE None

\* C4: the parser returns the date of the leftmost 8-digit run of the stem
\* (the string it searches) when that run is a calendar day, and None when
\* there is no run or the leftmost run is no calendar day, whatever follows.
C4_FirstRunDecides ==
    pc = "name_done" => file_date = ExpectedDate(StripMd(filename))

\* C4 witness: the leftmost run is invalid, a later run is a valid date, and
\* the parser has returned None.
C4_Witness ==
    /\ pc = "name_done"
    /\ file_date = None
    /\ LET stem == StripMd(filename)
       IN  \E i, j \in DigitRuns(stem) :
              /\ i + 8 <= j
              /\ \A k \in DigitRuns(stem) : i <= k
              /\ DateAt(stem, i) = None
              /\ DateAt(stem, j) # None

\* The filename without one trailing ".md"
TrailingStem(fname) ==
    IF EndsWith(fname, DotMd) THEN SubSeq(fname, 1, Len(fname) - 3) ELSE fname

\* C5: only one trailing ".md" is removed before the search, so the parser
\* returns what the leftmost 8-digit run of that stem gives; digits on the
\* two sides of an interior ".md" never join.
C5_OnlyTrailingMdRemoved ==
    pc = "name_done" => file_date = ExpectedDate(TrailingStem(filename))

-----------------------------------------------------------------------------
(* parse_log_file: task and section extraction *)

NL == "\n"

\* content.split('\n')
RECURSIVE SplitFrom(_, _, _)
SplitFrom(text, i, line) ==
    IF i > Len(text) THEN <<line>>
    ELSE IF text[i] = NL THEN <<line>> \o SplitFrom(text, i + 1, <<>>)
    ELSE SplitFrom(text, i + 1, Append(line, text[i]))

Split(text) == SplitFrom(text, 1, <<>>)

\* '\n'.join(lines)
RECURSIVE Join(_)
Join(lines) ==
    IF lines = <<>> THEN <<>>
    ELSE IF Len(lines) = 1 THEN lines[1]
    ELSE lines[1] \o <<NL>> \o Join(Tail(lines))

RECURSIVE LStrip(_)
LStrip(s) ==
    IF s # <<>> /\ Head(s) \in Whitespace THEN LStrip(Tail(s)) ELSE s

RECURSIVE RStrip(_)
RStrip(s) ==
    IF s # <<>> /\ s[Len(s)] \in Whitespace
    THEN RStrip(SubSeq(s, 1, Len(s) - 1)) ELSE s

\* str.strip()
Strip(s) == RStrip(LStrip(s))

\* str.lstrip('#')
RECURSIVE LStripHash(_)
LStripHash(s) ==
    IF s # <<>> /\ Head(s) = "#" THEN LStripHash(Tail(s)) ELSE s

\* The characters the bracket of task_pattern accepts: [x ]
StatusChars == {"x", " "}

\* re.match(r'^\s*-\s*\[([x ])\]\s*(.+)$', line): None, or <<status, task>>
\* with task already stripped.  \s* is greedy and '-' and '[' are no
\* whitespace, so each \s* takes the whole run; (.+) needs one character,
\* which the last \s* gives back when only whitespace follows the bracket.
MatchTask(line) ==
    LET a == LStrip(line)
        b == IF a # <<>> /\ Head(a) = "-" THEN LStrip(Tail(a)) ELSE <<>>
    IN  IF /\ Len(b) >= 4
           /\ b[1] = "["
           /\ b[2] \in StatusChars
           /\ b[3] = "]"
        THEN <<b[2], Strip(SubSeq(b, 4, Len(b)))>>
        ELSE None

\* status.lower() == 'x'
IsCompleted(status) == status \in {"x", "X"}

\* The loop of lines 198-206 over the remaining lines
RECURSIVE TaskLoop(_, _)
TaskLoop(lines, acc) ==
    IF lines = <<>> THEN acc
    ELSE LET match == MatchTask(Head(lines))
         IN  IF match = None THEN TaskLoop(Tail(lines), acc)
             ELSE IF IsCompleted(match[1])
             THEN TaskLoop(Tail(lines),
                     [acc EXCEPT !.completed = Append(@, match[2])])
             ELSE TaskLoop(Tail(lines),
                     [acc EXCEPT !.pending = Append(@, match[2])])

ExtractTasks(text) == TaskLoop(Split(text), NoTasks)

\* current_section: None, or a title (which may be the empty string)
NoSection == [has |-> FALSE, title |-> <<>>]

\* `if current_section:` is false for None and for the empty string
Truthy(cur) == cur.has /\ cur.title # <<>>

\* A heading test that accepts a single '#'
IsHeadingSingleHash(line) == StartsWith(line, <<"#">>)

\* line 214: line.startswith('##')
IsHeading(line) == StartsWith(line, <<"#", "#">>)

Flush(cur, buf, secs) ==
    IF Truthy(cur)
    THEN Append(secs, [title |-> cur.title, content |-> Strip(Join(buf))])
    ELSE secs

\* The loop of lines 213-223 and the final flush of lines 226-230
RECURSIVE SectionLoop(_, _, _, _)
SectionLoop(lines, cur, buf, secs) ==
    IF lines = <<>> THEN Flush(cur, buf, secs)
    ELSE IF IsHeading(Head(lines))
    THEN SectionLoop(Tail(lines),
            [has |-> TRUE, title |-> Strip(LStripHash(Head(lines)))],
            <<>>, Flush(cur, buf, secs))
    ELSE SectionLoop(Tail(lines), cur, Append(buf, Head(lines)), secs)

ExtractSections(text) == SectionLoop(Split(text), NoSection, <<>>, <<>>)

\* The date field: the parsed date (printed as %Y-%m-%d), or the sentinel
UnknownDate == <<"unknown date">>

\* parse_log_file applied to a path whose file was read as `text`
parse_log_file(file_path, text) ==
    LET fd == parse_date_from_filename(file_path[Len(file_path)])
    IN  [date |-> IF fd # None THEN fd ELSE UnknownDate,
         file_path |-> file_path,
         tasks |-> ExtractTasks(text),
         sections |-> ExtractSections(text),
         raw_content |-> text]

-----------------------------------------------------------------------------
(* The log parser applied to bounded file contents *)

MaxLines == 3

LineCatalogue ==
    { <<"-", " ", "[", "x", "]", " ", "a">>,
      <<"-", " ", "[", "X", "]", " ", "b">>,
      <<"-", " ", "[", " ", "]", " ", "c">>,
      <<"-", " ", "[", "~", "]", " ", "d">>,
      <<" ", "-", "[", "x", "]", "e", " ">>,
      <<"-", " ", "[", "x", "]", " ">>,
      <<"n", "o", "t", "e">>,
      <<"#", "#", " ", "S">>,
      <<"#", " ", "T">>,
      <<"#", "#">>,
      <<>>,
      <<"#", "#", "#", " ", " ", "U", " ">> }

Contents ==
    { Join(ls) : ls \in UNION { [1..n -> LineCatalogue] : n \in 1..MaxLines } }

SomeLogPath == <<<<"2", "0", "2", "5">>, <<"1", "1">>, <<"n", ".", "m", "d">>>>

InitLog ==
    /\ pc = "log_call"
    /\ content \in Contents
    /\ tasks = NoTasks
    /\ sections = <<>>
    /\ NameIdle /\ LocIdle /\ RunIdle /\ BundleIdle

ParseLogFile ==
    /\ pc = "log_call"
    /\ LET log_data == parse_log_file(SomeLogPath, content)
       IN  /\ tasks' = log_data.tasks
           /\ sections' = log_data.sections
    /\ pc' = "log_done"
    /\ UNCHANGED <<bundleVars, content, nameVars, locVars, runVars>>

NextLog == ParseLogFile

SpecLog == InitLog /\ [][NextLog]_vars

\* A line of the form: optional whitespace, a dash, whitespace, one character
\* in square brackets, whitespace, free text.  None, or <<c, free text>>.
TaskForm(line) ==
    LET a == LStrip(line)
        b == IF a # <<>> /\ Head(a) = "-" THEN LStrip(Tail(a)) ELSE <<>>
    IN  IF Len(b) >= 4 /\ b[1] = "[" /\ b[3] = "]"
        THEN <<b[2], Strip(SubSeq(b, 4, Len(b)))>>
        ELSE None

\* The free texts of the lines of the form whose bracket character is
\* (done = TRUE) or is not (done = FALSE) x or X, in line order
RECURSIVE TextsOf(_, _)
TextsOf(lines, done) ==
    IF lines = <<>> THEN <<>>
    ELSE LET f == TaskForm(Head(lines))
         IN  IF f # None /\ ((f[1] \in {"x", "X"}) = done)
             THEN <<f[2]>> \o TextsOf(Tail(lines), done)
             ELSE TextsOf(Tail(lines), done)

\* C6: every line of the task form gives one task, completed for x or X and
\* pending for every other bracket character; other lines give none; both
\* lists are in line order.
C6_EveryBracketCharIsATask ==
    pc = "log_done" =>
        /\ tasks.completed = TextsOf(Split(content), TRUE)
        /\ tasks.pending = TextsOf(Split(content), FALSE)

TitleOf(line) == Strip(LStripHash(line))

\* The lines (by index) that start with at least n '#' characters
HashLines(lines, n) ==
    { i \in 1..Len(lines) : StartsWith(lines[i], [k \in 1..n |-> "#"]) }

\* The k-th smallest element of a set of numbers
Nth(S, k) == CHOOSE i \in S : Cardinality({ j \in S : j < i }) = k - 1

\* The lines after heading i up to the next heading of H (or the end),
\* joined and trimmed
BodyOf(lines, i, H) ==
    LET later == { j \in H : j > i }
        stop == IF later = {} THEN Len(lines) + 1
                ELSE CHOOSE j \in later : \A k \in later : j <= k
    IN  Strip(Join(SubSeq(lines, i + 1, stop - 1)))

\* `secs` is exactly one entry per heading of E, in order, each running to
\* the next heading of H
SectionsAre(secs, lines, E, H) ==
    /\ Len(secs) = Cardinality(E)
    /\ \A k \in 1..Len(secs) :
          secs[k] = [title |-> TitleOf(lines[Nth(E, k)]),
                     content |-> BodyOf(lines, Nth(E, k), H)]

\* C7 as stated: one section per line that starts with one or more '#',
\* also when its title is empty, each running to the next such line; the
\* last open section is always emitted.
C7_OneSectionPerHashLine ==
    pc = "log_done" =>
        LET lines == Split(content)
        IN  SectionsAre(sections, lines, HashLines(lines, 1), HashLines(lines, 1))

\* C7 amended: one section per line that starts with two or more '#' and has
\* a non-empty title, in file order, each running to the next line that
\* starts with two or more '#' (or the end of file); lines before the first
\* such heading and lines under a heading with an empty title belong to no
\* section; the last open section is emitted when its title is non-empty.
C7_SectionsOfDoubleHashLines ==
    pc = "log_done" =>
        LET lines == Split(content)
            H == HashLines(lines, 2)
        IN  SectionsAre(sections, lines,
                        { i \in H : TitleOf(lines[i]) # <<>> }, H)

\* C7 witness: a file with a single-'#' line, a heading with an empty title
\* and a heading that is emitted after both.
C7_Witness ==
    /\ pc = "log_done"
    /\ LET lines == Split(content)
       IN  \E i, j, k \in 1..Len(lines) :
              /\ i < k /\ j < k
              /\ i \in HashLines(lines, 1) \ HashLines(lines, 2)
              /\ j \in HashLines(lines, 2) /\ TitleOf(lines[j]) = <<>>
              /\ k \in HashLines(lines, 2) /\ TitleOf(lines[k]) # <<>>
              /\ Len(sections) = 1

-----------------------------------------------------------------------------
(* find_recent_logs and find_recent_work_week_logs *)

\* str(n) for n >= 0
DigitChar(k) == <<"0", "1", "2", "3", "4", "5", "6", "7", "8", "9">>[k + 1]

RECURSIVE IntToStr(_)
IntToStr(n) ==
    IF n < 10 THEN <<DigitChar(n)>>
    ELSE IntToStr(n \div 10) \o <<DigitChar(n % 10)>>

\* int(s) for a str: surrounding whitespace is dropped, one sign is allowed,
\* single underscores may separate digits.  None stands for ValueError.
RECURSIVE DropUnderscores(_)
DropUnderscores(s) ==
    IF s = <<>> THEN <<>>
    ELSE IF Head(s) = "_" THEN DropUnderscores(Tail(s))
    ELSE <<Head(s)>> \o DropUnderscores(Tail(s))

PyInt(s) ==
    LET t == Strip(s)
        signed == t # <<>> /\ Head(t) \in {"+", "-"}
        body == IF signed THEN Tail(t) ELSE t
        wellFormed ==
            /\ body # <<>>
            /\ \A i \in 1..Len(body) : body[i] \in Digits \cup {"_"}
            /\ body[1] # "_" /\ body[Len(body)] # "_"
            /\ \A i \in 1..(Len(body) - 1) : ~(body[i] = "_" /\ body[i + 1] = "_")
        value == IntOfDigits(DropUnderscores(body))
    IN  IF ~wellFormed THEN None
        ELSE IF signed /\ Head(t) = "-" THEN <<0 - value>> ELSE <<value>>

\* The characters of the names of the model, in code point order
Alphabet ==
    <<" ", "+", "-", ".", "0", "1", "2", "3", "4", "5", "6", "7", "8",
      "9", "_", "b", "d", "e", "m", "n", "o", "s", "t", "u", "x">>

CharCode(c) == CHOOSE k \in 1..Len(Alphabet) : Alphabet[k] = c

\* str < str
RECURSIVE StrLess(_, _)
StrLess(a, b) ==
    IF b = <<>> THEN FALSE
    ELSE IF a = <<>> THEN TRUE
    ELSE IF Head(a) # Head(b) THEN CharCode(Head(a)) < CharCode(Head(b))
    ELSE StrLess(Tail(a), Tail(b))

\* Path < Path: the parts are compared as a list of str
RECURSIVE PathLess(_, _)
PathLess(p, q) ==
    IF q = <<>> THEN FALSE
    ELSE IF p = <<>> THEN TRUE
    ELSE IF Head(p) # Head(q) THEN StrLess(Head(p), Head(q))
    ELSE PathLess(Tail(p), Tail(q))

\* sorted(paths)
RECURSIVE SortPaths(_)
SortPaths(S) ==
    IF S = {} THEN <<>>
    ELSE LET least == CHOOSE p \in S : \A q \in S \ {p} : PathLess(p, q)
         IN  <<least>> \o SortPaths(S \ {least})

\* d.iterdir(): the entries directly inside directory d (a path below
\* base_path; <<>> is base_path itself)
IterDir(t, d) ==
    { SubSeq(p, 1, Len(d) + 1) :
        p \in { q \in t : Len(q) > Len(d) /\ SubSeq(q, 1, Len(d)) = d } }

\* p.is_dir(): an entry is a directory when something lies below it
IsDir(t, p) == \E q \in t : Len(q) > Len(p) /\ SubSeq(q, 1, Len(p)) = p

Name(p) == p[Len(p)]

\* month_dir.glob("*.md"): the entries of month_dir whose name ends in .md
GlobMd(t, month_dir) == { f \in IterDir(t, month_dir) : EndsWith(Name(f), DotMd) }

\* lines 83-84: the year directory that is descended into
YearDirOk(t, year_dir, year) ==
    ~(~IsDir(t, year_dir) \/ Name(year_dir) # IntToStr(year))

\* lines 87-100: the month directories that are descended into
MonthDirOk(t, month_dir) ==
    /\ IsDir(t, month_dir)
    /\ ~StartsWith(Name(month_dir), <<".">>)
    /\ LET month_num == PyInt(Name(month_dir))
       IN  /\ month_num # None
           /\ ~(month_num[1] < 1 \/ month_num[1] > 12)

\* A window test that leaves the last day out
InWindowExclusiveEnd(d, start, end) == Ord(d) >= start /\ Ord(d) < end

\* line 107: file_date.date() >= start_date.date() and
\* file_date.date() <= end_date.date()
InWindow(d, start, end) == Ord(d) >= start /\ Ord(d) <= end

\* lines 79-108 (and 137-166): the paths appended to log_files
WalkTree(t, year, start, end) ==
    LET year_dirs == { y \in IterDir(t, <<>>) : YearDirOk(t, y, year) }
        month_dirs == UNION { { m \in IterDir(t, y) : MonthDirOk(t, m) } :
                              y \in year_dirs }
        md_files == UNION { GlobMd(t, m) : m \in month_dirs }
    IN  { log_file \in md_files :
            LET fd == parse_date_from_filename(Name(log_file))
            IN  fd # None /\ InWindow(fd, start, end) }

\* A work week that is always the current calendar week
WorkWeekWindowThisWeek(today) ==
    <<today - Weekday(today), today - Weekday(today) + 4>>

\* A work week that on a Friday is still the previous calendar week
WorkWeekWindowFridayLate(today) ==
    LET today_weekday == Weekday(today)
        last_monday == IF today_weekday \in {0, 1, 2, 3, 4}
                       THEN today - (today_weekday + 7)
                       ELSE today - today_weekday
    IN  <<last_monday, last_monday + 4>>

\* lines 119-135: <<start_date, end_date>> of the work week
WorkWeekWindow(today) ==
    LET today_weekday == Weekday(today)
        last_monday == IF today_weekday \in {0, 1, 2, 3}
                       THEN today - (today_weekday + 7)
                       ELSE today - today_weekday
    IN  <<last_monday, last_monday + 4>>

\* lines 76-77: <<start_date, end_date>> of the rolling window
RollingWindow(today, n) == <<today - n, today>>

find_recent_work_week_logs(t, year, today) ==
    LET w == WorkWeekWindow(today)
    IN  [start |-> w[1], end |-> w[2],
         files |-> SortPaths(WalkTree(t, year, w[1], w[2]))]

find_recent_logs(t, year, today, n) ==
    IF n = 5 THEN find_recent_work_week_logs(t, year, today)
    ELSE LET w == RollingWindow(today, n)
         IN  [start |-> w[1], end |-> w[2],
              files |-> SortPaths(WalkTree(t, year, w[1], w[2]))]

-----------------------------------------------------------------------------
(* The locator applied to bounded directory trees, dates and day counts *)

FirstDay == 739614
DaySpan == 14
MaxTreeSize == 3
MaxTicks == 1

DayCounts == {0, 3, 5}

PathCatalogue ==
    { <<<<"2", "0", "2", "5">>, <<"1", "2">>, <<"2", "0", "2", "5", "1", "2", "3", "1", ".", "m", "d">>>>,
      <<<<"2", "0", "2", "5">>, <<"1", "2">>, <<"2", "0", "2", "5", "1", "2", "2", "6", ".", "m", "d">>>>,
      <<<<"2", "0", "2", "6">>, <<"1">>, <<"2", "0", "2", "6", "0", "1", "0", "2", ".", "m", "d">>>>,
      <<<<"2", "0", "2", "6">>, <<"0", "1">>, <<"2", "0", "2", "6", "0", "1", "0", "5", "x", ".", "m", "d">>>>,
      <<<<"2", "0", "2", "6">>, <<"1">>, <<"2", "0", "2", "6", "0", "1", "0", "8", ".", "m", "d">>>>,
      <<<<"2", "0", "2", "6">>, <<"1", "3">>, <<"2", "0", "2", "6", "0", "1", "0", "3", ".", "m", "d">>>>,
      <<<<"2", "0", "2", "6">>, <<".", "1">>, <<"2", "0", "2", "6", "0", "1", "0", "4", ".", "m", "d">>>>,
      <<<<"2", "0", "2", "6">>, <<"1">>, <<"2", "0", "2", "6", "0", "1", "0", "6", ".", "t", "x", "t">>>>,
      <<<<"2", "0", "2", "6">>, <<"1">>, <<"s", "u", "b">>, <<"2", "0", "2", "6", "0", "1", "0", "7", ".", "m", "d">>>>,
      <<<<"2", "0", "2", "6">>, <<"1">>, <<"n", "o", "t", "e", "s", ".", "m", "d">>>>,
      <<<<"2", "0", "2", "6">>, <<"1", "2">>, <<"2", "0", "2", "6", "0", "1", "0", "1", ".", "m", "d">>>>,
      <<<<"2", "0", "2", "6">>, <<"1">>, <<"2", "0", "2", "6", ".", "m", "d", "0", "1", "0", "9", ".", "m", "d">>>>,
      <<<<"2", "0", "2", "6">>, <<"1">>, <<"2", "0", "2", "6", "0", "1", "0", "7", ".", "m", "d">>, <<"x", ".", "m", "d">>>>,
      <<<<"2", "0", "2", "6">>, <<"2">>>> }

Trees == { t \in SUBSET PathCatalogue : Cardinality(t) <= MaxTreeSize }

InitLocate ==
    /\ pc = "loc_new"
    /\ now \in FirstDay..(FirstDay + DaySpan - 1)
    /\ ticks = 0
    /\ days \in DayCounts
    /\ tree \in Trees
    /\ current_year = 0
    /\ start_date = 0 /\ end_date = 0 /\ log_files = <<>>
    /\ NameIdle /\ LogIdle /\ RunIdle /\ BundleIdle

\* WorklogCollector.__init__
Construct ==
    /\ pc = "loc_new"
    /\ current_year' = YearOfOrd(now)
    /\ pc' = "loc_call"
    /\ UNCHANGED <<bundleVars, now, ticks, days, tree, start_date, end_date, log_files,
                   nameVars, logVars, runVars>>

\* Midnight passes between construction and the call
TickLocate ==
    /\ pc = "loc_call"
    /\ ticks < MaxTicks
    /\ now' = now + 1
    /\ ticks' = ticks + 1
    /\ UNCHANGED <<bundleVars, pc, current_year, days, tree, start_date, end_date,
                   log_files, nameVars, logVars, runVars>>

FindRecentLogs ==
    /\ pc = "loc_call"
    /\ LET r == find_recent_logs(tree, current_year, now, days)
       IN  /\ start_date' = r.start
           /\ end_date' = r.end
           /\ log_files' = r.files
    /\ pc' = "loc_done"
    /\ UNCHANGED <<bundleVars, now, ticks, current_year, days, tree, nameVars, logVars,
                   runVars>>

NextLocate == Construct \/ TickLocate \/ FindRecentLogs

SpecLocate == InitLocate /\ [][NextLocate]_vars

\* The Monday of the calendar week of day n
MondayOf(n) == CHOOSE m \in (n - 6)..n : Weekday(m) = 0

\* C1: on Monday to Thursday the 5-day window starts today - (weekday + 7)
\* days, the Monday of the calendar week before today's, and ends 4 days
\* later, that week's Friday.
C1_MidWeekTakesPreviousWeek ==
    (pc = "loc_done" /\ days = 5 /\ Weekday(now) \in {0, 1, 2, 3}) =>
        /\ start_date = now - (Weekday(now) + 7)
        /\ start_date = MondayOf(now) - 7
        /\ Weekday(start_date) = 0
        /\ end_date = start_date + 4
        /\ Weekday(end_date) = 4

\* C1 witness: a 5-day request on a Monday to Thursday that located a log of
\* the previous week.
C1_Witness ==
    /\ pc = "loc_done" /\ days = 5 /\ Weekday(now) \in {0, 1, 2, 3}
    /\ Len(log_files) >= 1
    /\ start_date < MondayOf(now)

\* C2: on Friday, Saturday and Sunday the 5-day window starts on the Monday
\* of today's own calendar week and ends on that week's Friday, which is
\* today or earlier.
C2_WeekEndTakesCurrentWeek ==
    (pc = "loc_done" /\ days = 5 /\ Weekday(now) \in {4, 5, 6}) =>
        /\ start_date = now - Weekday(now)
        /\ start_date = MondayOf(now)
        /\ Weekday(start_date) = 0
        /\ end_date = start_date + 4
        /\ Weekday(end_date) = 4
        /\ end_date <= now

\* C2 witness: a 5-day request on a Sunday that located a log of the week
\* that has just ended.
C2_Witness ==
    /\ pc = "loc_done" /\ days = 5 /\ Weekday(now) = 6
    /\ Len(log_files) >= 1
    /\ end_date < now

\* The entries that sit directly inside a month directory
MonthEntries(t) == { SubSeq(p, 1, 3) : p \in { q \in t : Len(q) >= 3 } }

\* The entries the locator is expected to return for the window
\* start..end: under the directory named for the year, in a month directory
\* that is not hidden and whose name is an integer in 1..12, named *.md, with
\* a filename date inside the window, both ends included
ExpectedLogs(t, year, start, end) ==
    { e \in MonthEntries(t) :
        /\ e[1] = IntToStr(year)
        /\ e[2] # <<>> /\ Head(e[2]) # "."
        /\ \E k \in 1..12 : PyInt(e[2]) = <<k>>
        /\ EndsWith(e[3], DotMd)
        /\ LET d == parse_date_from_filename(e[3])
           IN  d # None /\ start <= Ord(d) /\ Ord(d) <= end }

\* C3: the locator returns exactly the expected entries, none from another
\* year directory, sorted ascending by path and without repetition.
C3_LocatorReturnsWindowOfYear ==
    pc = "loc_done" =>
        /\ { log_files[i] : i \in 1..Len(log_files) }
              = ExpectedLogs(tree, current_year, start_date, end_date)
        /\ \A i \in 1..Len(log_files) : log_files[i][1] = IntToStr(current_year)
        /\ \A i \in 1..(Len(log_files) - 1) : PathLess(log_files[i], log_files[i + 1])
        /\ \A i, j \in 1..Len(log_files) : i # j => log_files[i] # log_files[j]

\* C3 witness: two logs are returned, one dated on the window's last day,
\* while a log of another year directory dated inside the window is not.
C3_Witness ==
    /\ pc = "loc_done"
    /\ Len(log_files) >= 2
    /\ \E i \in 1..Len(log_files) :
          Ord(parse_date_from_filename(Name(log_files[i]))) = end_date
    /\ \E p \in tree :
          /\ Len(p) = 3
          /\ p[1] # IntToStr(current_year)
          /\ LET d == parse_date_from_filename(p[3])
             IN  d # None /\ start_date <= Ord(d) /\ Ord(d) <= end_date

-----------------------------------------------------------------------------
(* generate_output_filename, collect_logs_for_claude, call_claude_analysis *)

\* '%0wd' % n
RECURSIVE Pad(_, _)
Pad(n, w) == IF w = 0 THEN <<>> ELSE Pad(n \div 10, w - 1) \o <<DigitChar(n % 10)>>

\* d.strftime('%Y%m%d') of the day with ordinal n
StrfYmd(n) ==
    LET d == FromOrd(n) IN Pad(d[1], 4) \o Pad(d[2], 2) \o Pad(d[3], 2)

\* The directory arguments: the values of config.py that main passes, and
\* the defaults of the signature
CLAUDE_INPUT_DIR == "config.CLAUDE_INPUT_DIR"
WORKLOG_SUMMARY_DIR == "config.WORKLOG_SUMMARY_DIR"
DefaultInputDir == "claude_input"
DefaultSummaryDir == "worklog_summary"

\* lines 533-557: <<output_file, input_file>>.  The work week of lines
\* 535-545 is computed exactly as in lines 119-135.
generate_output_filename(today, n, claude_input_dir, worklog_summary_dir) ==
    LET w == IF n = 5 THEN WorkWeekWindow(today) ELSE RollingWindow(today, n)
        range == StrfYmd(w[1]) \o <<"_", "t", "o", "_">> \o StrfYmd(w[2])
    IN  <<[dir |-> worklog_summary_dir, prefix |-> "worklog_summary_",
           range |-> range],
          [dir |-> claude_input_dir, prefix |-> "claude_input_",
           range |-> range]>>

\* lines 251-268: the window the header names.  Dates stand for their
\* '%Y-%m-%d' text.
StatsRange(today, n) ==
    IF n = 5
    THEN LET w == WorkWeekWindow(today)
         IN  [kind |-> "week", start |-> FromOrd(w[1]), end |-> FromOrd(w[2]),
              n |-> n]
    ELSE [kind |-> "days", start |-> None, end |-> None, n |-> n]

\* The text of the file at path p
FileText(p) == <<"#", "#", " ">> \o Name(p) \o <<NL, "-", " ", "[", "x", "]", " ", "a">>

\* A read that never fails
ReadOkAlways(t, bad, p) == TRUE

\* open(file_path, 'r', encoding='utf-8') and f.read() succeed
ReadOk(t, bad, p) == p \notin bad /\ ~IsDir(t, p)

\* lines 278-284 (and 612-618): parse each file, skip the ones that raise
RECURSIVE ParseLoop(_, _, _)
ParseLoop(t, bad, files) ==
    IF files = <<>> THEN <<>>
    ELSE IF ReadOk(t, bad, Head(files))
    THEN <<parse_log_file(Head(files), FileText(Head(files)))>>
            \o ParseLoop(t, bad, Tail(files))
    ELSE ParseLoop(t, bad, Tail(files))

\* line 274: the string returned when nothing was located
NotFoundText == [sentinel |-> TRUE, header |-> None, blocks |-> <<>>]

\* lines 287-308: the header and one block per parsed log
FormatBundle(logs, range, generated) ==
    [sentinel |-> FALSE,
     header |-> [generated |-> generated, range |-> range, count |-> Len(logs)],
     blocks |-> [i \in 1..Len(logs) |->
                   [date |-> logs[i].date,
                    file_path |-> logs[i].file_path,
                    raw_content |-> logs[i].raw_content]]]

\* lines 270-308, given the located files
BuildBundle(t, bad, files, range, generated) ==
    IF files = <<>> THEN NotFoundText
    ELSE FormatBundle(ParseLoop(t, bad, files), range, generated)

ToolOutcomes == {"zero", "nonzero", "timeout", "exception"}

\* A call that lets the timeout escape
call_claude_analysis_TimeoutEscapes(outcome) ==
    [raised |-> outcome = "timeout",
     value |-> IF outcome = "zero" THEN "result.stdout" ELSE "error message"]

\* lines 365-389: what the call returns for each outcome of subprocess.run;
\* every exception is caught
call_claude_analysis(outcome) ==
    [raised |-> FALSE,
     value |-> CASE outcome = "zero" -> "result.stdout"
                 [] outcome = "nonzero" -> "call failed: result.stderr"
                 [] outcome = "timeout" -> "analysis timed out"
                 [] outcome = "exception" -> "call error: e"]

-----------------------------------------------------------------------------
(* main, from the construction of the collector on (lines 699-787).        *)
(* Configuration and arguments are valid, and the output directories exist *)
(* and are writable.  Console output is not modelled.                      *)

RunFirstDay == 739628
MaxRunFiles == 2

RunDayCounts == {3, 5}

RunCatalogue ==
    { <<<<"2", "0", "2", "6">>, <<"1">>, <<"2", "0", "2", "6", "0", "1", "0", "8", ".", "m", "d">>>>,
      <<<<"2", "0", "2", "6">>, <<"1">>, <<"2", "0", "2", "6", "0", "1", "0", "9", ".", "m", "d">>>>,
      <<<<"2", "0", "2", "6">>, <<"1">>, <<"2", "0", "2", "6", "0", "1", "1", "5", ".", "m", "d">>>>,
      <<<<"2", "0", "2", "6">>, <<"1">>, <<"2", "0", "2", "6", "0", "1", "1", "4", ".", "m", "d">>, <<"x", ".", "m", "d">>>> }

RunTrees == { t \in SUBSET RunCatalogue : Cardinality(t) <= MaxRunFiles }

Init ==
    /\ pc = "main_new"
    /\ now \in RunFirstDay..(RunFirstDay + 6)
    /\ ticks = 0
    /\ days \in RunDayCounts
    /\ tree \in RunTrees
    /\ use_claude \in BOOLEAN
    /\ unreadable \in SUBSET { p \in tree : Len(p) = 3 }
    /\ current_year = 0
    /\ start_date = 0 /\ end_date = 0 /\ log_files = <<>>
    /\ output_file = None /\ input_file = None /\ claude_input_file = None
    /\ stats_range = None /\ collect_window = None /\ collect_files = <<>>
    /\ log_content = None /\ analysis_result = Unassigned /\ io = <<>>
    /\ NameIdle /\ LogIdle /\ BundleIdle

\* The positions whose next step reads the clock
ClockReaders ==
    {"main_new", "main_names", "gs_find", "collect_range", "collect_find",
     "gs_write"}

\* Midnight passes
Tick ==
    /\ pc \in ClockReaders
    /\ ticks < MaxTicks
    /\ now' = now + 1
    /\ ticks' = ticks + 1
    /\ UNCHANGED <<bundleVars, pc, current_year, days, tree, start_date, end_date,
                   log_files, nameVars, logVars, runVars>>

\* line 700: collector = WorklogCollector(WORKLOG_PATH)
MainConstruct ==
    /\ pc = "main_new"
    /\ current_year' = YearOfOrd(now)
    /\ pc' = "main_names"
    /\ UNCHANGED <<bundleVars, now, ticks, days, tree, start_date, end_date, log_files,
                   nameVars, logVars, runVars>>

\* lines 745-751
MainNames ==
    /\ pc = "main_names"
    /\ LET names == generate_output_filename(now, days, CLAUDE_INPUT_DIR,
                                             WORKLOG_SUMMARY_DIR)
       IN  /\ output_file' = names[1]
           /\ input_file' = names[2]
    /\ pc' = IF use_claude THEN "gs_find" ELSE "collect_range"
    /\ UNCHANGED <<bundleVars, locVars, nameVars, logVars, use_claude, unreadable,
                   claude_input_file, stats_range, collect_window,
                   collect_files, log_content, analysis_result, io>>

\* generate_summary_with_claude, lines 604-618.  The logs parsed by lines
\* 612-618 are not used afterwards.
GsFind ==
    /\ pc = "gs_find"
    /\ LET r == find_recent_logs(tree, current_year, now, days)
       IN  /\ start_date' = r.start
           /\ end_date' = r.end
           /\ log_files' = r.files
           /\ pc' = IF r.files = <<>> THEN "done" ELSE "collect_range"
    /\ UNCHANGED <<bundleVars, now, ticks, current_year, days, tree, nameVars, logVars,
                   runVars>>

\* collect_logs_for_claude, lines 251-268
CollectRange ==
    /\ pc = "collect_range"
    /\ stats_range' = StatsRange(now, days)
    /\ pc' = "collect_find"
    /\ UNCHANGED <<bundleVars, locVars, nameVars, logVars, use_claude, unreadable,
                   output_file, input_file, claude_input_file, collect_window,
                   collect_files, log_content, analysis_result, io>>

\* collect_logs_for_claude, lines 270-308
CollectLogs ==
    /\ pc = "collect_find"
    /\ LET r == find_recent_logs(tree, current_year, now, days)
       IN  /\ collect_window' = <<r.start, r.end>>
           /\ collect_files' = r.files
           /\ log_content' = BuildBundle(tree, unreadable, r.files,
                                         stats_range, FromOrd(now))
    /\ pc' = IF use_claude THEN "gs_write" ELSE "nc_write"
    /\ UNCHANGED <<bundleVars, locVars, nameVars, logVars, use_claude, unreadable,
                   output_file, input_file, claude_input_file, stats_range,
                   analysis_result, io>>

WriteFile(path, data) == [op |-> "write", path |-> path, data |-> data]

\* generate_summary_with_claude, lines 624-633
GsWriteInput ==
    /\ pc = "gs_write"
    /\ LET names == generate_output_filename(now, days, DefaultInputDir,
                                             DefaultSummaryDir)
       IN  /\ claude_input_file' = names[2]
           /\ io' = Append(io, WriteFile(names[2], log_content))
    /\ pc' = "gs_tool"
    /\ UNCHANGED <<bundleVars, locVars, nameVars, logVars, use_claude, unreadable,
                   output_file, input_file, stats_range, collect_window,
                   collect_files, log_content, analysis_result>>

\* generate_summary_with_claude, line 638
CallClaudeAnalysis ==
    /\ pc = "gs_tool"
    /\ \E outcome \in ToolOutcomes :
          LET r == call_claude_analysis(outcome)
          IN  /\ io' = Append(io, [op |-> "tool", path |-> None,
                                   data |-> outcome])
              /\ IF r.raised
                 THEN pc' = "aborted" /\ UNCHANGED analysis_result
                 ELSE pc' = "gs_save" /\ analysis_result' = r.value
    /\ UNCHANGED <<bundleVars, locVars, nameVars, logVars, use_claude, unreadable,
                   output_file, input_file, claude_input_file, stats_range,
                   collect_window, collect_files, log_content>>

\* generate_summary_with_claude, lines 641-649; update_latest_symlink may
\* fail, which is reported and changes nothing
SaveAnalysis ==
    /\ pc = "gs_save"
    /\ \E linked \in BOOLEAN :
          io' = Append(io, WriteFile(output_file, analysis_result))
                  \o (IF linked
                      THEN <<[op |-> "symlink", path |-> output_file,
                              data |-> None]>>
                      ELSE <<>>)
    /\ pc' = "done"
    /\ UNCHANGED <<bundleVars, locVars, nameVars, logVars, use_claude, unreadable,
                   output_file, input_file, claude_input_file, stats_range,
                   collect_window, collect_files, log_content,
                   analysis_result>>

\* main, lines 775-776
NcWriteInput ==
    /\ pc = "nc_write"
    /\ io' = Append(io, WriteFile(input_file, log_content))
    /\ pc' = "done"
    /\ UNCHANGED <<bundleVars, locVars, nameVars, logVars, use_claude, unreadable,
                   output_file, input_file, claude_input_file, stats_range,
                   collect_window, collect_files, log_content,
                   analysis_result>>

Next ==
    \/ Tick
    \/ MainConstruct
    \/ MainNames
    \/ GsFind
    \/ CollectRange
    \/ CollectLogs
    \/ GsWriteInput
    \/ CallClaudeAnalysis
    \/ SaveAnalysis
    \/ NcWriteInput

Spec == Init /\ [][Next]_vars

\* The files whose read fails: the unreadable ones and the directories
FailedReads == unreadable \cup { p \in tree : IsDir(tree, p) }
                          \cup { SubSeq(p, 1, 3) : p \in { q \in tree : Len(q) > 3 } }

\* C8: whatever files fail to be read, the bundle is built: it holds one
\* block for each located file that was read, in the order of the located
\* list, none for a failed file, and the count of its header (when it has
\* one) is the number of blocks.
C8_BundleSkipsFailedReads ==
    /\ pc # "aborted"
    /\ log_content # None =>
          LET good == SelectSeq(collect_files, LAMBDA p : p \notin FailedReads)
              blocks == log_content.blocks
          IN  /\ Len(blocks) = Len(good)
              /\ \A i \in 1..Len(blocks) :
                    /\ blocks[i].file_path = good[i]
                    /\ blocks[i].raw_content = FileText(good[i])
                    /\ blocks[i].file_path \notin FailedReads
              /\ log_content.header # None =>
                    log_content.header.count = Len(blocks)

\* C8 witness: two files were located, the read of one failed, and the
\* bundle holds the one block of the other.
C8_Witness ==
    /\ log_content # None
    /\ Len(collect_files) = 2
    /\ \E i \in 1..2 : collect_files[i] \in FailedReads
    /\ Len(log_content.blocks) = 1
    /\ log_content.header.count = 1

ToolCalls == { i \in 1..Len(io) : io[i].op = "tool" }

\* C9: with the analysis enabled and a log located, the run never aborts; the
\* bundle file is written before the tool is invoked, the tool is invoked
\* once, and then the analysis file is written: the tool's standard output
\* on a zero exit, an error message on every other outcome.
C9_ToolFailureIsWrittenNotRaised ==
    /\ pc # "aborted"
    /\ pc = "gs_tool" => io = <<WriteFile(claude_input_file, log_content)>>
    /\ pc = "gs_save" => Len(io) = 2 /\ analysis_result # Unassigned
    /\ (pc = "done" /\ use_claude /\ log_files # <<>>) =>
          /\ Len(io) >= 3
          /\ io[1] = WriteFile(claude_input_file, log_content)
          /\ io[2].op = "tool" /\ io[2].data \in ToolOutcomes
          /\ ToolCalls = {2}
          /\ io[3].op = "write" /\ io[3].path = output_file
          /\ io[3].data = analysis_result
          /\ io[2].data = "zero" => io[3].data = "result.stdout"
          /\ io[2].data # "zero" =>
                io[3].data \in {"call failed: result.stderr",
                                "analysis timed out", "call error: e"}

\* C9 witness: the tool timed out, and the run ended with the bundle and an
\* error message written.
C9_Witness ==
    /\ pc = "done" /\ use_claude /\ log_files # <<>>
    /\ io[2].data = "timeout"
    /\ io[3].data = "analysis timed out"

BundleWrites ==
    { i \in 1..Len(io) : io[i].op = "write" /\ io[i].path.prefix = "claude_input_" }

AnalysisWrites ==
    { i \in 1..Len(io) : io[i].op = "write" /\ io[i].path.prefix = "worklog_summary_" }

\* C10: every run writes the bundle file at a path of the output namer,
\* with or without the analysis and with or without a located log, and the
\* analysis file is written exactly when the tool was invoked.
C10_BundleWrittenInEveryRun ==
    pc = "done" =>
        /\ BundleWrites # {}
        /\ (AnalysisWrites # {}) <=> (ToolCalls # {})

-----------------------------------------------------------------------------
(* collect_logs_for_claude: the text of the bundle, line by line *)

SeparatorWidth == 80

\* c * n
Repeat(c, n) == [i \in 1..n |-> c]

\* "=" * 80 and "-" * 80
HeavyRule == Repeat("=", SeparatorWidth)
LightRule == Repeat("-", SeparatorWidth)

\* The fixed texts of the f-strings; ASCII letters stand for the program's
\* Chinese labels, which hold no "=", "-" or newline either
TitleText == <<"S", "u", "m", "m", "a", "r", "y">>
GeneratedLabel == <<"G", "e", "n", "e", "r", "a", "t", "e", "d", ":">>
RangeLabel == <<"R", "a", "n", "g", "e", ":">>
CountLabel == <<"L", "o", "g", "s", ":">>
CountUnit == <<" ", "d", "a", "y", "s">>
DateLabel == <<"D", "a", "t", "e", ":">>
FileLabel == <<"F", "i", "l", "e", ":">>

\* The seven elements appended before the loop
BundleHeader(count, range, generated) ==
    << HeavyRule, TitleText, HeavyRule,
       GeneratedLabel \o generated,
       RangeLabel \o range,
       CountLabel \o IntToStr(count) \o CountUnit,
       <<>> >>

\* A block that puts one empty element, not two, after the raw content
LogBlockOneBlankLine(log) ==
    << HeavyRule,
       DateLabel \o log.date,
       FileLabel \o log.file_path,
       HeavyRule,
       <<>>,
       log.raw_content,
       <<>>,
       LightRule,
       <<>> >>

\* The ten elements one pass of the loop appends; raw_content is one
\* element, whatever newlines it holds
LogBlock(log) ==
    << HeavyRule,
       DateLabel \o log.date,
       FileLabel \o log.file_path,
       HeavyRule,
       <<>>,
       log.raw_content,
       <<>>,
       <<>>,
       LightRule,
       <<>> >>

RECURSIVE LogBlocks(_)
LogBlocks(ls) ==
    IF ls = <<>> THEN <<>> ELSE LogBlock(Head(ls)) \o LogBlocks(Tail(ls))

\* '\n'.join(claude_input)
FormatText(ls, range, generated) ==
    Join(BundleHeader(Len(ls), range, generated) \o LogBlocks(ls))

-----------------------------------------------------------------------------
(* The formatter applied to bounded lists of logs                          *)

MaxLogs == 2

OneLetter == <<"a">>

\* The i-th log of a list: a date text, a path text and a raw content
LogOf(i, raw) ==
    [ date |-> <<"2", "0", "2", "6", "-", "0", "1", "-", "0">> \o <<DigitChar(i)>>,
      file_path |-> <<"2", "0", "2", "6", "0", "1", "0">> \o <<DigitChar(i)>> \o DotMd,
      raw_content |-> raw ]

\* Raw contents, each given by its lines; the last one holds a block end
\* and the head of a second log
RawCatalogue ==
    { Join(ls) : ls \in
        { <<OneLetter>>,
          <<<<>>>>,
          <<<<>>, OneLetter, <<>>>>,
          <<<<>>, <<>>, <<>>>>,
          <<LightRule>>,
          <<HeavyRule>>,
          <<OneLetter, LightRule, OneLetter>>,
          <<OneLetter, <<>>, LightRule, <<>>>>,
          <<HeavyRule, DateLabel \o OneLetter, FileLabel \o OneLetter,
            HeavyRule, <<>>>>,
          <<<<>>, <<>>, LightRule>>,
          <<OneLetter, <<>>, <<>>, LightRule, <<>>, OneLetter>>,
          <<OneLetter, <<>>, <<>>, LightRule, <<>>, HeavyRule,
            DateLabel \o LogOf(2, <<>>).date,
            FileLabel \o LogOf(2, <<>>).file_path, HeavyRule, <<>>,
            OneLetter>> } }

LogLists ==
    UNION { { [i \in 1..n |-> LogOf(i, raws[i])] :
                raws \in [1..n -> RawCatalogue] } : n \in 1..MaxLogs }

SomeRange == <<"5", " ", "d", "a", "y", "s">>
SomeGenerated == <<"2", "0", "2", "6", "-", "0", "1", "-", "1", "6", " ", "0", "9", ":", "0", "0", ":", "0", "0">>

InitBundle ==
    /\ pc = "bundle_format"
    /\ bundle_logs \in LogLists
    /\ claude_input = <<>>
    /\ NameIdle /\ LogIdle /\ LocIdle /\ RunIdle

FormatLogs ==
    /\ pc = "bundle_format"
    /\ claude_input' = FormatText(bundle_logs, SomeRange, SomeGenerated)
    /\ pc' = "bundle_done"
    /\ UNCHANGED <<bundle_logs, nameVars, logVars, locVars, runVars>>

NextBundle == FormatLogs

SpecBundle == InitBundle /\ [][NextBundle]_vars

-----------------------------------------------------------------------------
(* Splitting a bundle back into its blocks, at the lines the formatter     *)
(* puts around a raw content: the five lines of a block's head before it   *)
(* and two empty lines, the light rule and an empty line after it.         *)

\* The lines of a text: what lies between its newlines, as Split gives,
\* computed from the positions of the newlines
SplitLines(text) ==
    LET nl == { i \in 1..Len(text) : text[i] = NL }
        n == Cardinality(nl)
        At(k) == IF k = 0 THEN 0
                 ELSE IF k = n + 1 THEN Len(text) + 1
                 ELSE CHOOSE i \in nl : Cardinality({ j \in nl : j < i }) = k - 1
    IN  [k \in 1..(n + 1) |-> SubSeq(text, At(k - 1) + 1, At(k) - 1)]

IsBlockHead(lines, i) ==
    /\ i + 4 <= Len(lines)
    /\ lines[i] = HeavyRule
    /\ StartsWith(lines[i + 1], DateLabel)
    /\ StartsWith(lines[i + 2], FileLabel)
    /\ lines[i + 3] = HeavyRule
    /\ lines[i + 4] = <<>>

IsBlockEnd(lines, j) ==
    /\ j + 3 <= Len(lines)
    /\ lines[j] = <<>>
    /\ lines[j + 1] = <<>>
    /\ lines[j + 2] = LightRule
    /\ lines[j + 3] = <<>>

\* The blocks from line i on: each runs from its head to the first end
RECURSIVE SplitBlocksFrom(_, _)
SplitBlocksFrom(lines, i) ==
    IF ~IsBlockHead(lines, i) THEN <<>>
    ELSE LET ends == { j \in (i + 5)..Len(lines) : IsBlockEnd(lines, j) }
         IN  IF ends = {} THEN <<>>
             ELSE LET j == CHOOSE e \in ends : \A k \in ends : e <= k
                  IN  <<Join(SubSeq(lines, i + 5, j - 1))>>
                          \o SplitBlocksFrom(lines, j + 4)

SplitBundle(text) ==
    SplitBlocksFrom(SplitLines(text), Len(BundleHeader(0, <<>>, <<>>)) + 1)

\* The raw contents of a list of logs
RawContents(ls) == [i \in 1..Len(ls) |-> ls[i].raw_content]

\* No other list of logs has the text of this one: what any way of
\* splitting needs in order to give every list back
FormatTextIsInjective ==
    pc = "bundle_done" =>
        \A other \in LogLists :
            FormatText(other, SomeRange, SomeGenerated) = claude_input
                => other = bundle_logs

\* A light rule right after two empty lines, somewhere in a raw content
HasBlockEndInside(raw) ==
    LET lines == SplitLines(raw)
    IN  \E j \in 1..(Len(lines) - 2) :
            lines[j] = <<>> /\ lines[j + 1] = <<>> /\ lines[j + 2] = LightRule

HasLine(raw, line) ==
    LET lines == SplitLines(raw) IN \E j \in 1..Len(lines) : lines[j] = line

\* C11 as stated: whatever the raw contents, the split of the formatted text
\* gives as many blocks as there were logs, each equal to its log's raw
\* content.
C11_RoundTripForEveryContent ==
    pc = "bundle_done" => SplitBundle(claude_input) = RawContents(bundle_logs)

\* C11: when no raw content holds a line of 80 "-" right after two empty
\* lines, the split of the formatted text gives as many blocks as there
\* were logs, each equal to its log's raw content; lines of 80 "=" or 80 "-"
\* elsewhere and empty lines at either end of a content do no harm.
C11_RoundTripWithoutBlockEnd ==
    (/\ pc = "bundle_done"
     /\ \A i \in 1..Len(bundle_logs) :
            ~HasBlockEndInside(bundle_logs[i].raw_content)) =>
        LET blocks == SplitBundle(claude_input)
        IN  /\ Len(blocks) = Len(bundle_logs)
            /\ \A i \in 1..Len(bundle_logs) :
                   blocks[i] = bundle_logs[i].raw_content

\* Two logs, one holding a light rule and ending in an empty line, the
\* other a heavy rule and a forged head, come back unchanged
C11_Witness ==
    /\ pc = "bundle_done"
    /\ Len(bundle_logs) = 2
    /\ HasLine(bundle_logs[1].raw_content, LightRule)
    /\ EndsWith(bundle_logs[1].raw_content, <<NL>>)
    /\ HasLine(bundle_logs[2].raw_content, HeavyRule)
    /\ HasLine(bundle_logs[2].raw_content, DateLabel \o OneLetter)
    /\ \A i \in 1..2 : ~HasBlockEndInside(bundle_logs[i].raw_content)
    /\ SplitBundle(claude_input) = RawContents(bundle_logs)

-----------------------------------------------------------------------------
\* The text of a window inside a path: YYYYMMDD_to_YYYYMMDD
RangeText(w) == StrfYmd(w[1]) \o <<"_", "t", "o", "_">> \o StrfYmd(w[2])

\* C12: in a run that wrote its bundle, the range in the bundle path, the
\* range in the analysis path, the work week named in the bundle header and
\* the windows used to select the log files are one and the same window,
\* however the clock advanced between the steps.
C12_OneWindowPerRun ==
    (pc = "done" /\ BundleWrites # {}) =>
        /\ \A i \in BundleWrites : io[i].path.range = RangeText(collect_window)
        /\ \A i \in AnalysisWrites : io[i].path.range = RangeText(collect_window)
        /\ output_file.range = input_file.range
        /\ stats_range.kind = "week" =>
              /\ stats_range.start = FromOrd(collect_window[1])
              /\ stats_range.end = FromOrd(collect_window[2])
        /\ use_claude => <<start_date, end_date>> = collect_window

\* The same statement for the runs in which no midnight passed
C12_OneWindowWithoutMidnight ==
    ticks = 0 => C12_OneWindowPerRun

====
